---- MODULE Spec2Model ----
(***************************************************************************)
(* Model of NumericColInsight (ddpui/datainsights/insights/                *)
(* numeric_insight.py): generate_sql builds one aggregate query over a     *)
(* warehouse column, the warehouse executes it, parse_results turns the    *)
(* result rows into a report.                                              *)
(*                                                                         *)
(* Column values are fixed-point numbers counted in thousandths            *)
(* (1000 stands for 1.0, 5 for 0.005), so that rounding to 2 decimal       *)
(* places is an observable step: a value with 2 decimals is a multiple of  *)
(* 10.  A nullable SQL value is a set with at most one element: NULL is    *)
(* the empty set, the value v is {v}.                                      *)
(*                                                                         *)
(* Two further parts have specifications of their own: SpecConn for        *)
(* create_connection and update_connection of ddpairbyte/                  *)
(* airbyte_service.py, SpecAuth for the token lookups of auth.py.          *)
(***************************************************************************)
EXTENDS Integers, Sequences, FiniteSets, TLC

MaxRows == 3
MaxRuns == 2

NULL == {}
Some(v) == {v}
ValueOf(c) == CHOOSE v \in c : TRUE

\* the non-null values a column may hold, in thousandths
Vals == {-5, 1000, 2000, 3000, 4000}
Cells == {NULL} \cup {Some(v) : v \in Vals}
ColumnNames == {"age", "price"}
Tables == UNION {[1..n -> Cells] : n \in 0..MaxRows}

VARIABLES column_name, tbl, nullsFirst, pc, query, subquery, result,
          input, response, err, prev, runs

\* create_connection and update_connection of ddpairbyte/airbyte_service.py
VARIABLES conn_catalog, conn_streams, conn_op, conn_requests, conn_outcome

insightVars == <<column_name, tbl, nullsFirst, pc, query, subquery, result,
                 input, response, err, prev, runs>>

connVars == <<conn_catalog, conn_streams, conn_op, conn_requests,
              conn_outcome>>

\* the token lookups and bearers of ddpui/auth.py
VARIABLES clientUsers, adminUsers, token, clientOut, adminOut

authVars == <<clientUsers, adminUsers, token, clientOut, adminOut>>

\* no lookup has run
Pending == [kind |-> "pending", id |-> 0, status |-> 0, message |-> ""]

vars == <<insightVars, connVars, authVars>>

----------------------------------------------------------------------------
(* SQL expression semantics of the engine *)

\* integer division of the engine on integer operands
IntDiv(a, b) == a \div b

RoundHalfAway(num, den) ==
    IF num >= 0 THEN (2 * num + den) \div (2 * den)
    ELSE -((2 * (-num) + den) \div (2 * den))

\* variant: the quotient cut off after 2 decimal places
Round2_Truncated(s, n) ==
    IF s >= 0 THEN 10 * (s \div (10 * n)) ELSE -(10 * ((-s) \div (10 * n)))

\* round(s / n, 2) of the exact quotient, in thousandths
Round2(s, n) == 10 * RoundHalfAway(s, 10 * n)

RECURSIVE SumNonNull(_)
SumNonNull(rows) ==
    IF rows = <<>> THEN 0
    ELSE (IF Head(rows) = NULL THEN 0 ELSE ValueOf(Head(rows)))
         + SumNonNull(Tail(rows))

RECURSIVE CountNonNull(_)
CountNonNull(rows) ==
    IF rows = <<>> THEN 0
    ELSE (IF Head(rows) = NULL THEN 0 ELSE 1) + CountNonNull(Tail(rows))

\* variant: count(col), which skips the null rows
CountStar_OfColumn(rows) == CountNonNull(rows)

\* count(*)
CountStar(rows) == Len(rows)

\* case when col is null then 1 else 0 end
CaseNull(c) == IF c = NULL THEN 1 ELSE 0

RECURSIVE SumCase(_)
SumCase(rows) ==
    IF rows = <<>> THEN 0 ELSE CaseNull(Head(rows)) + SumCase(Tail(rows))

\* sum(case ...): NULL over no rows
SumCaseNull(rows) == IF rows = <<>> THEN NULL ELSE Some(SumCase(rows))

RECURSIVE DistinctNonNull(_)
DistinctNonNull(rows) ==
    IF rows = <<>> THEN {}
    ELSE Head(rows) \cup DistinctNonNull(Tail(rows))

\* count(distinct col)
CountDistinct(rows) == Cardinality(DistinctNonNull(rows))

RECURSIVE MaxAgg(_)
MaxAgg(rows) ==
    IF rows = <<>> THEN NULL
    ELSE LET m == MaxAgg(Tail(rows))
             h == Head(rows)
         IN  IF h = NULL THEN m
             ELSE IF m = NULL THEN h
             ELSE IF ValueOf(h) > ValueOf(m) THEN h ELSE m

RECURSIVE MinAgg(_)
MinAgg(rows) ==
    IF rows = <<>> THEN NULL
    ELSE LET m == MinAgg(Tail(rows))
             h == Head(rows)
         IN  IF h = NULL THEN m
             ELSE IF m = NULL THEN h
             ELSE IF ValueOf(h) < ValueOf(m) THEN h ELSE m

\* cast(round(avg(col), 2) as float): avg skips nulls, NULL when none is left
AvgRound(rows) ==
    IF CountNonNull(rows) = 0 THEN NULL
    ELSE Some(Round2(SumNonNull(rows), CountNonNull(rows)))

\* ascending order of the engine, nulls first or last
Precedes(a, b, nf) ==
    IF a = NULL THEN (b = NULL \/ nf)
    ELSE IF b = NULL THEN ~nf
    ELSE ValueOf(a) <= ValueOf(b)

RECURSIVE InsertSorted(_, _, _)
InsertSorted(c, sorted, nf) ==
    IF sorted = <<>> THEN <<c>>
    ELSE IF Precedes(c, Head(sorted), nf) THEN <<c>> \o sorted
    ELSE <<Head(sorted)>> \o InsertSorted(c, Tail(sorted), nf)

RECURSIVE OrderBy(_, _)
OrderBy(rows, nf) ==
    IF rows = <<>> THEN <<>>
    ELSE InsertSorted(Head(rows), OrderBy(Tail(rows), nf), nf)

\* variant: the null rows are filtered out before the ranking
median_subquery_NonNull(rows, nf) ==
    LET IsValue(c) == c # NULL
        ordered == OrderBy(SelectSeq(rows, IsValue), nf)
    IN  [i \in 1..Len(ordered) |->
            [col |-> ordered[i], total_rows |-> Len(ordered), row_number |-> i]]

\* select col, count(*) over () as total_rows,
\*        row_number() over (order by col) as row_number from table
median_subquery(rows, nf) ==
    LET ordered == OrderBy(rows, nf)
    IN  [i \in 1..Len(rows) |->
            [col |-> ordered[i], total_rows |-> CountStar(rows), row_number |-> i]]

\* variant: only the lower middle row
MedianPositions_Lower(total) == {IntDiv(total + 1, 2)}

\* row_number in ((total_rows + 1) / 2, (total_rows + 2) / 2)
MedianPositions(total) == {IntDiv(total + 1, 2), IntDiv(total + 2, 2)}

InMedianRows(r) == r.row_number \in MedianPositions(r.total_rows)

RECURSIVE ColOf(_)
ColOf(sub) ==
    IF sub = <<>> THEN <<>> ELSE <<Head(sub).col>> \o ColOf(Tail(sub))

\* select cast(round(avg(subquery.col), 2) as float) from subquery where ...
MedianScalar(sub) == AvgRound(ColOf(SelectSeq(sub, InMedianRows)))

\* group by col: one group per distinct value, the nulls forming one group
Groups(rows) == {rows[i] : i \in DOMAIN rows}

\* variant: count(*) within the group, which counts the null rows
GroupCount_Star(rows, g) == Cardinality({i \in DOMAIN rows : rows[i] = g})

\* count(col) within the group of g: counts non-null values only
GroupCount(rows, g) ==
    IF g = NULL THEN 0 ELSE Cardinality({i \in DOMAIN rows : rows[i] = g})

\* variant: limit 1 without the ordering by count
ModeCandidates_Unordered(rows) ==
    IF Groups(rows) = {} THEN {NULL} ELSE Groups(rows)

\* select col ... group by col order by count(col) desc limit 1: the engine
\* may return any group of the highest count; NULL when there is no group
ModeCandidates(rows) ==
    IF Groups(rows) = {} THEN {NULL}
    ELSE {g \in Groups(rows) :
            \A h \in Groups(rows) : GroupCount(rows, h) <= GroupCount(rows, g)}

----------------------------------------------------------------------------
(* NumericColInsight *)

\* the labels of the output expressions, in add_column order
Labels ==
    <<"count", "countNull", "countDistinct", "maxVal", "minVal",
      "mean", "median", "mode">>

\* generate_sql: the query is the labelled expressions over the table
generate_sql == Labels

\* value of one labelled output expression over the table
Eval(label, rows, sub, mode) ==
    CASE label = "count" -> Some(CountStar(rows))
      [] label = "countNull" -> SumCaseNull(rows)
      [] label = "countDistinct" -> Some(CountDistinct(rows))
      [] label = "maxVal" -> MaxAgg(rows)
      [] label = "minVal" -> MinAgg(rows)
      [] label = "mean" -> AvgRound(rows)
      [] label = "median" -> MedianScalar(sub)
      [] label = "mode" -> mode

\* the single row an aggregate query without group by returns
QueryRow(q, rows, sub, mode) ==
    [l \in {q[i] : i \in DOMAIN q} |-> Eval(l, rows, sub, mode)]

\* variant: the type of another insight class
get_col_type_String == "String"

get_col_type == "Numeric"

InsightKeys ==
    {"count", "countNull", "countDistinct", "maxVal", "minVal",
     "mean", "median", "mode"}

EmptyInsights == [k \in {} |-> NULL]

\* variant: result[0] is read without the length test (IndexError when empty)
parse_results_Unguarded(name, res) ==
    IF Len(res) = 0 \/ ~(InsightKeys \subseteq DOMAIN res[1])
    THEN [raised |-> TRUE, value |-> NULL]
    ELSE [raised |-> FALSE,
          value |-> Some([name |-> name,
                          type |-> get_col_type,
                          insights |-> [k \in InsightKeys |-> res[1][k]]])]

\* variant: the fields are read from the last row, result[-1]
parse_results_LastRow(name, res) ==
    IF Len(res) > 0 /\ ~(InsightKeys \subseteq DOMAIN res[Len(res)])
    THEN [raised |-> TRUE, value |-> NULL]
    ELSE [raised |-> FALSE,
          value |-> Some([name |-> name,
                          type |-> get_col_type,
                          insights |->
                              IF Len(res) > 0
                              THEN [k \in InsightKeys |-> res[Len(res)][k]]
                              ELSE EmptyInsights])]

\* parse_results: result[0][key] raises KeyError when the row lacks the key
parse_results(name, res) ==
    IF Len(res) > 0 /\ ~(InsightKeys \subseteq DOMAIN res[1])
    THEN [raised |-> TRUE, value |-> NULL]
    ELSE [raised |-> FALSE,
          value |-> Some([name |-> name,
                          type |-> get_col_type,
                          insights |->
                              IF Len(res) > 0
                              THEN [k \in InsightKeys |-> res[1][k]]
                              ELSE EmptyInsights])]

\* the row of the docstring of parse_results: five of the eight fields
DocRow ==
    [l \in {"count", "countNull", "countDistinct", "maxVal", "minVal"} |->
        CASE l = "count" -> Some(399)
          [] l = "countNull" -> Some(0)
          [] l = "countDistinct" -> Some(1)
          [] l = "maxVal" -> Some(100000)
          [] l = "minVal" -> Some(100000)]

\* a further row a caller may hand over behind the first
OtherRow == [l \in InsightKeys |-> Some(7000)]

\* the lists a caller may pass to parse_results
ParseInputs(res) == {<<>>, res, res \o <<OtherRow>>, <<DocRow>>}

----------------------------------------------------------------------------
Init ==
    /\ column_name \in ColumnNames
    /\ tbl \in Tables
    /\ nullsFirst \in BOOLEAN
    /\ pc = "idle"
    /\ query = <<>>
    /\ subquery = <<>>
    /\ result = <<>>
    /\ input = <<>>
    /\ response = NULL
    /\ err = "none"
    /\ prev = NULL
    /\ runs = 0
    /\ conn_catalog = <<>>
    /\ conn_streams = <<>>
    /\ conn_op = "none"
    /\ conn_requests = <<>>
    /\ conn_outcome = "none"
    /\ clientUsers = {}
    /\ adminUsers = {}
    /\ token = <<>>
    /\ clientOut = Pending
    /\ adminOut = Pending

GenerateSql ==
    /\ pc = "idle"
    /\ query' = generate_sql
    /\ pc' = "built"
    /\ UNCHANGED <<column_name, tbl, nullsFirst, subquery, result, input,
                   response, err, prev, runs>>
    /\ UNCHANGED <<connVars, authVars>>

Execute ==
    /\ pc = "built"
    /\ subquery' = median_subquery(tbl, nullsFirst)
    /\ \E mode \in ModeCandidates(tbl) :
          result' = <<QueryRow(query, tbl, subquery', mode)>>
    /\ pc' = "executed"
    /\ UNCHANGED <<column_name, tbl, nullsFirst, query, input, response,
                   err, prev, runs>>
    /\ UNCHANGED <<connVars, authVars>>

ParseResults ==
    /\ pc = "executed"
    /\ \E inp \in ParseInputs(result) :
          LET r == parse_results(column_name, inp)
          IN  /\ input' = inp
              /\ err' = IF r.raised THEN "KeyError" ELSE "none"
              /\ response' = r.value
    /\ pc' = "parsed"
    /\ UNCHANGED <<column_name, tbl, nullsFirst, query, subquery, result,
                   prev, runs>>
    /\ UNCHANGED <<connVars, authVars>>

\* the caller asks for the insight of the same, unchanged table again
NextRun ==
    /\ pc = "parsed"
    /\ runs + 1 < MaxRuns
    /\ prev' = IF input = result THEN response ELSE NULL
    /\ runs' = runs + 1
    /\ pc' = "idle"
    /\ query' = <<>>
    /\ subquery' = <<>>
    /\ result' = <<>>
    /\ input' = <<>>
    /\ response' = NULL
    /\ err' = "none"
    /\ UNCHANGED <<column_name, tbl, nullsFirst>>
    /\ UNCHANGED <<connVars, authVars>>

Next == GenerateSql \/ Execute \/ ParseResults \/ NextRun

Spec == Init /\ [][Next]_vars

----------------------------------------------------------------------------
(* ddpairbyte/airbyte_service.py: create_connection, update_connection *)

MaxCatalog == 2
MaxStreams == 2

StreamNames == {"s1", "s2"}
SyncModes == {"full_refresh", "incremental"}
DestinationSyncModes == {"append", "overwrite"}

\* one entry of connection_info.streams
StreamEntries ==
    {[name |-> n, selected |-> sel, syncMode |-> sm,
      incremental |-> (sm = "incremental"), destinationSyncMode |-> dsm] :
        n \in StreamNames, sel \in BOOLEAN, sm \in SyncModes,
        dsm \in DestinationSyncModes}

\* connection_info.streams: one entry per stream name
StreamLists ==
    {l \in UNION {[1..n -> StreamEntries] : n \in 0..MaxStreams} :
        \A i, j \in DOMAIN l : l[i].name = l[j].name => i = j}

\* one stream of the discovered catalog, with the configuration it comes with
CatalogStream(n) ==
    [stream |-> [name |-> n],
     config |-> [syncMode |-> "full_refresh", destinationSyncMode |-> "append"]]

\* sourceschemacatalog["catalog"]["streams"]
Catalogs ==
    UNION {[1..n -> {CatalogStream(x) : x \in StreamNames}] :
              n \in 0..MaxCatalog}

\* a request made to the Airbyte server through abreq
Request(endpoint, streams) == [endpoint |-> endpoint, streams |-> streams]

\* Python values of different types, which compare unequal
PyStr(x) == [str |-> x]
PyDict(f) == [dict |-> f]
PyEq(a, b) == DOMAIN a = DOMAIN b /\ a = b

\* x in lst
PyInList(x, lst) == \E i \in DOMAIN lst : PyEq(lst[i], x)

\* {x["name"]: x for x in streams}: a later entry replaces an earlier one
CreateSelected(streams) ==
    [n \in {streams[i].name : i \in DOMAIN streams} |->
        streams[CHOOSE i \in DOMAIN streams :
                   /\ streams[i].name = n
                   /\ \A j \in DOMAIN streams :
                         streams[j].name = n => j <= i]]

\* the loop of create_connection over the catalog
RECURSIVE CreateLoop(_, _)
CreateLoop(cat, selected) ==
    IF cat = <<>> THEN <<>>
    ELSE LET schema_cat == Head(cat)
             stream_name == schema_cat.stream.name
         IN  (IF stream_name \in DOMAIN selected
                 /\ selected[stream_name].selected
              THEN <<[schema_cat EXCEPT
                        !.config.syncMode = selected[stream_name].syncMode,
                        !.config.destinationSyncMode =
                            selected[stream_name].destinationSyncMode]>>
              ELSE <<>>)
             \o CreateLoop(Tail(cat), selected)

\* create_connection; discoverOk, createOk: the answers of the server
create_connection(cat, streams, discoverOk, createOk) ==
    IF Len(streams) = 0
    THEN [outcome |-> "Exception", requests |-> <<>>]
    ELSE IF ~discoverOk
    THEN [outcome |-> "AirbyteError",
          requests |-> <<Request("sources/discover_schema", <<>>)>>]
    ELSE [outcome |-> IF createOk THEN "returned" ELSE "Exception",
          requests |->
              <<Request("sources/discover_schema", <<>>),
                Request("connections/create",
                        CreateLoop(cat, CreateSelected(streams)))>>]

\* [{x["name"]: x} for x in streams]: a list of one-key dicts
UpdateSelected(streams) ==
    [i \in DOMAIN streams |->
        PyDict([n \in {streams[i].name} |-> streams[i]])]

\* the loop of update_connection over the catalog: the stream name is looked
\* up in the list; indexing the list by the name would raise TypeError
RECURSIVE UpdateLoop(_, _)
UpdateLoop(cat, selected) ==
    IF cat = <<>> THEN [raised |-> FALSE, streams |-> <<>>]
    ELSE LET stream_name == Head(cat).stream.name
             rest == UpdateLoop(Tail(cat), selected)
         IN  IF PyInList(PyStr(stream_name), selected)
             THEN [raised |-> TRUE, streams |-> <<>>]
             ELSE rest

\* update_connection; discoverOk, updateOk: the answers of the server
update_connection(cat, streams, discoverOk, updateOk) ==
    IF Len(streams) = 0
    THEN [outcome |-> "Exception", requests |-> <<>>]
    ELSE IF ~discoverOk
    THEN [outcome |-> "AirbyteError",
          requests |-> <<Request("sources/discover_schema", <<>>)>>]
    ELSE LET loop == UpdateLoop(cat, UpdateSelected(streams))
         IN  IF loop.raised
             THEN [outcome |-> "TypeError",
                   requests |-> <<Request("sources/discover_schema", <<>>)>>]
             ELSE [outcome |-> IF updateOk THEN "returned" ELSE "Exception",
                   requests |->
                       <<Request("sources/discover_schema", <<>>),
                         Request("connections/update", loop.streams)>>]

\* the insight is not in use
InsightIdle ==
    /\ column_name = "age"
    /\ tbl = <<>>
    /\ nullsFirst = FALSE
    /\ pc = "idle"
    /\ query = <<>>
    /\ subquery = <<>>
    /\ result = <<>>
    /\ input = <<>>
    /\ response = NULL
    /\ err = "none"
    /\ prev = NULL
    /\ runs = 0

InitConn ==
    /\ InsightIdle
    /\ conn_catalog \in Catalogs
    /\ conn_streams \in StreamLists
    /\ conn_op = "none"
    /\ conn_requests = <<>>
    /\ conn_outcome = "none"
    /\ clientUsers = {}
    /\ adminUsers = {}
    /\ token = <<>>
    /\ clientOut = Pending
    /\ adminOut = Pending

CreateConnection ==
    /\ conn_op = "none"
    /\ \E discoverOk, createOk \in BOOLEAN :
          LET r == create_connection(conn_catalog, conn_streams,
                                     discoverOk, createOk)
          IN  /\ conn_requests' = r.requests
              /\ conn_outcome' = r.outcome
    /\ conn_op' = "create"
    /\ UNCHANGED <<conn_catalog, conn_streams>>
    /\ UNCHANGED <<insightVars, authVars>>

UpdateConnection ==
    /\ conn_op = "none"
    /\ \E discoverOk, updateOk \in BOOLEAN :
          LET r == update_connection(conn_catalog, conn_streams,
                                     discoverOk, updateOk)
          IN  /\ conn_requests' = r.requests
              /\ conn_outcome' = r.outcome
    /\ conn_op' = "update"
    /\ UNCHANGED <<conn_catalog, conn_streams>>
    /\ UNCHANGED <<insightVars, authVars>>

NextConn == CreateConnection \/ UpdateConnection

SpecConn == InitConn /\ [][NextConn]_vars

----------------------------------------------------------------------------
(* ddpui/auth.py: a token is a sequence of characters *)

MaxTail == 3

ClientPrefix ==
    <<"f", "a", "k", "e", "-", "a", "u", "t", "h", "-",
      "t", "o", "k", "e", "n", ":">>

AdminPrefix ==
    <<"f", "a", "k", "e", "-", "a", "d", "m", "i", "n", "-",
      "a", "u", "t", "h", "-", "t", "o", "k", "e", "n", ":">>

\* the ids a stored user may have
UserIds == {1, 11}

\* what may follow the head of a token
TailChars == {"1", "-", "+", " ", "_", "a"}
Tails == UNION {[1..n -> TailChars] : n \in 0..MaxTail}

\* how a token may begin: a prefix, none, a prefix cut short, a prefix
\* that is not at the start
Heads ==
    {ClientPrefix, AdminPrefix, <<>>,
     SubSeq(ClientPrefix, 1, Len(ClientPrefix) - 1), <<"a">> \o ClientPrefix}

Tokens == {h \o t : h \in Heads, t \in Tails}

\* token.find(prefix) == 0
FindAtStart(tok, prefix) ==
    /\ Len(tok) >= Len(prefix)
    /\ SubSeq(tok, 1, Len(prefix)) = prefix

\* token[len(prefix):]
SliceFrom(tok, prefix) == SubSeq(tok, Len(prefix) + 1, Len(tok))

DigitChars == <<"0", "1", "2", "3", "4", "5", "6", "7", "8", "9">>
IsDigit(c) == \E i \in DOMAIN DigitChars : DigitChars[i] = c
DigitVal(c) == (CHOOSE i \in DOMAIN DigitChars : DigitChars[i] = c) - 1

RECURSIVE StripLeft(_)
StripLeft(text) ==
    IF text # <<>> /\ Head(text) = " " THEN StripLeft(Tail(text)) ELSE text

RECURSIVE StripRight(_)
StripRight(text) ==
    IF text # <<>> /\ text[Len(text)] = " "
    THEN StripRight(SubSeq(text, 1, Len(text) - 1))
    ELSE text

\* digits, single underscores allowed between two digits
IsDigitBody(body) ==
    /\ body # <<>>
    /\ IsDigit(body[1])
    /\ IsDigit(body[Len(body)])
    /\ \A i \in DOMAIN body : IsDigit(body[i]) \/ body[i] = "_"
    /\ \A i \in 1..(Len(body) - 1) : ~(body[i] = "_" /\ body[i + 1] = "_")

RECURSIVE DigitsValue(_, _)
DigitsValue(body, acc) ==
    IF body = <<>> THEN acc
    ELSE IF Head(body) = "_" THEN DigitsValue(Tail(body), acc)
    ELSE DigitsValue(Tail(body), 10 * acc + DigitVal(Head(body)))

\* int(text): the number, or NULL where int raises ValueError
PyInt(text) ==
    LET stripped == StripRight(StripLeft(text))
        signed == stripped # <<>> /\ Head(stripped) \in {"+", "-"}
        body == IF signed THEN Tail(stripped) ELSE stripped
    IN  IF ~IsDigitBody(body) THEN NULL
        ELSE IF signed /\ Head(stripped) = "-"
        THEN Some(-DigitsValue(body, 0))
        ELSE Some(DigitsValue(body, 0))

\* objects.filter(id=userid).first(): the stored user of that id, or None
FilterFirst(users, userid) == IF userid \in users THEN Some(userid) ELSE NULL

HttpError(status, message) ==
    [kind |-> "HttpError", id |-> 0, status |-> status, message |-> message]

\* return user, where user may be None
Returned(user) ==
    IF user = NULL
    THEN [kind |-> "None", id |-> 0, status |-> 0, message |-> ""]
    ELSE [kind |-> "user", id |-> ValueOf(user), status |-> 0, message |-> ""]

\* the body shared by the two lookups, which differ in prefix and store
LookupByToken(tok, prefix, users) ==
    LET found == FindAtStart(tok, prefix)
        userid == IF found THEN PyInt(SliceFrom(tok, prefix)) ELSE NULL
    IN  IF found /\ userid = NULL THEN HttpError(400, "invalid token")
        ELSE LET user == IF found THEN FilterFirst(users, ValueOf(userid))
                         ELSE NULL
             IN  IF user = NULL THEN HttpError(400, "invalid token")
                 ELSE Returned(user)

\* variant: the lookup without the final test for None
STUB_lookup_client_user_by_token_Unchecked(tok, users) ==
    LET found == FindAtStart(tok, ClientPrefix)
        userid == IF found THEN PyInt(SliceFrom(tok, ClientPrefix)) ELSE NULL
    IN  IF found /\ userid = NULL THEN HttpError(400, "invalid token")
        ELSE Returned(IF found THEN FilterFirst(users, ValueOf(userid))
                      ELSE NULL)

STUB_lookup_client_user_by_token(tok, users) ==
    LookupByToken(tok, ClientPrefix, users)

STUB_lookup_admin_user_by_token(tok, users) ==
    LookupByToken(tok, AdminPrefix, users)

InitAuth ==
    /\ InsightIdle
    /\ conn_catalog = <<>>
    /\ conn_streams = <<>>
    /\ conn_op = "none"
    /\ conn_requests = <<>>
    /\ conn_outcome = "none"
    /\ clientUsers \in SUBSET UserIds
    /\ adminUsers \in SUBSET UserIds
    /\ token \in Tokens
    /\ clientOut = Pending
    /\ adminOut = Pending

\* ClientAuthBearer.authenticate
ClientAuthenticate ==
    /\ clientOut = Pending
    /\ clientOut' = STUB_lookup_client_user_by_token(token, clientUsers)
    /\ UNCHANGED <<clientUsers, adminUsers, token, adminOut>>
    /\ UNCHANGED <<insightVars, connVars>>

\* AdminAuthBearer.authenticate
AdminAuthenticate ==
    /\ adminOut = Pending
    /\ adminOut' = STUB_lookup_admin_user_by_token(token, adminUsers)
    /\ UNCHANGED <<clientUsers, adminUsers, token, clientOut>>
    /\ UNCHANGED <<insightVars, connVars>>

NextAuth == ClientAuthenticate \/ AdminAuthenticate

SpecAuth == InitAuth /\ [][NextAuth]_vars

----------------------------------------------------------------------------
(* Vocabulary of the properties: the table described as a multiset of     *)
(* cells, without the folds and the sort of the engine.                   *)

\* the query has been executed and its row is at hand
Executed == pc = "executed"
Row == result[1]

NullIdx == {i \in DOMAIN tbl : tbl[i] = NULL}
NonNullIdx == DOMAIN tbl \ NullIdx
NoNulls == NullIdx = {}
Present == {v \in Vals : \E i \in DOMAIN tbl : tbl[i] = Some(v)}
Occ(v) == Cardinality({i \in DOMAIN tbl : tbl[i] = Some(v)})
Below(v) == Cardinality({i \in NonNullIdx : ValueOf(tbl[i]) < v})
UpTo(v) == Cardinality({i \in NonNullIdx : ValueOf(tbl[i]) <= v})

\* the k-th smallest non-null value of the column, 1 <= k <= number of them
KthSmallest(k) == CHOOSE v \in Present : Below(v) < k /\ k <= UpTo(v)

\* the cell at position p of the ascending ranking of ALL rows of the table
RankedCell(p) ==
    LET k == Cardinality(NullIdx)
    IN  IF nullsFirst
        THEN (IF p <= k THEN NULL ELSE Some(KthSmallest(p - k)))
        ELSE (IF p <= Len(tbl) - k THEN Some(KthSmallest(p)) ELSE NULL)

Abs(x) == IF x < 0 THEN -x ELSE x

\* m is the quotient s / n rounded to 2 decimal places, ties away from zero
\* (all in thousandths): a multiple of 0.01, within 0.005 of s / n
IsRounded2(m, s, n) ==
    /\ m % 10 = 0
    /\ Abs(m * n - s) <= 5 * n
    /\ (Abs(m * n - s) = 5 * n => Abs(m * n) > Abs(s))

\* sum and number of the non-null cells among the positions ps of the ranking
RECURSIVE SetSum(_)
SetSum(S) ==
    IF S = {} THEN 0
    ELSE LET x == CHOOSE y \in S : TRUE IN x[2] + SetSum(S \ {x})

\* the row numbers (total+1)/2 and (total+2)/2 that name a row of the table
CentralPositions ==
    {(Len(tbl) + 1) \div 2, (Len(tbl) + 2) \div 2} \cap (1..Len(tbl))
CentralNonNull ==
    {<<p, ValueOf(RankedCell(p))>> :
        p \in {q \in CentralPositions : RankedCell(q) # NULL}}

----------------------------------------------------------------------------
\* C1 (as stated): for a column of N >= 1 rows without nulls the median is
\* exactly the average of the values at the ascending row numbers (N+1)/2
\* and (N+2)/2.
C1_MedianIsExactAverage ==
    (Executed /\ Len(tbl) >= 1 /\ NoNulls) =>
        /\ Row["median"] # NULL
        /\ 2 * ValueOf(Row["median"]) =
              KthSmallest((Len(tbl) + 1) \div 2)
              + KthSmallest((Len(tbl) + 2) \div 2)

\* C1 (amended): for a column of N >= 1 rows without nulls the median is the
\* average of the values at the ascending row numbers (N+1)/2 and (N+2)/2,
\* rounded to 2 decimal places; the single middle value for odd N, the
\* average of the two central values for even N.
C1_MedianIsRoundedAverage ==
    (Executed /\ Len(tbl) >= 1 /\ NoNulls) =>
        /\ Row["median"] # NULL
        /\ IsRounded2(ValueOf(Row["median"]),
                      KthSmallest((Len(tbl) + 1) \div 2)
                      + KthSmallest((Len(tbl) + 2) \div 2), 2)
        /\ (Len(tbl) % 2 = 1 =>
              (Len(tbl) + 1) \div 2 = (Len(tbl) + 2) \div 2)
        /\ (Len(tbl) % 2 = 0 =>
              (Len(tbl) + 2) \div 2 = (Len(tbl) + 1) \div 2 + 1)

\* [4, 1] -> 2.5
C1_Witness ==
    /\ Executed
    /\ tbl = <<Some(4000), Some(1000)>>
    /\ Row["median"] = Some(2500)

\* C2: over a table of zero rows the result row has count, countNull and
\* countDistinct 0 and maxVal, minVal, mean, median and mode null.
C2_EmptyTableRow ==
    (Executed /\ tbl = <<>>) =>
        /\ Row["count"] = Some(0)
        /\ Row["countNull"] = Some(0)
        /\ Row["countDistinct"] = Some(0)
        /\ \A k \in {"maxVal", "minVal", "mean", "median", "mode"} :
              Row[k] = NULL

\* C3: over a non-empty table count is the number of all rows, countNull the
\* number of null rows, countDistinct the number of distinct non-null
\* values, maxVal and minVal the largest and smallest non-null value.
C3_CountsAndExtremes ==
    (Executed /\ Len(tbl) >= 1) =>
        /\ Row["count"] = Some(Cardinality(DOMAIN tbl))
        /\ Row["countNull"] = Some(Cardinality(NullIdx))
        /\ Row["countDistinct"] = Some(Cardinality(Present))
        /\ (Present # {} =>
              /\ Row["maxVal"] # NULL /\ Row["minVal"] # NULL
              /\ ValueOf(Row["maxVal"]) \in Present
              /\ ValueOf(Row["minVal"]) \in Present
              /\ \A v \in Present :
                    ValueOf(Row["minVal"]) <= v /\ v <= ValueOf(Row["maxVal"]))
        /\ (Present = {} => Row["maxVal"] = NULL /\ Row["minVal"] = NULL)

\* [4, null, 3]: the column holds a null
C3_Witness ==
    /\ Executed
    /\ tbl = <<Some(4000), NULL, Some(3000)>>
    /\ Row["count"] = Some(3)
    /\ Row["countNull"] = Some(1)
    /\ Row["countDistinct"] = Some(2)
    /\ Row["maxVal"] = Some(4000)
    /\ Row["minVal"] = Some(3000)

\* C4: the mode is a value of the column whose occurrence count no other
\* value exceeds, also when the null rows outnumber it; a column without
\* any value has the mode null.
C4_ModeHasHighestCount ==
    Executed =>
        /\ (Present # {} =>
              /\ Row["mode"] # NULL
              /\ ValueOf(Row["mode"]) \in Present
              /\ \A v \in Present : Occ(v) <= Occ(ValueOf(Row["mode"])))
        /\ (Present = {} => Row["mode"] = NULL)

\* the null rows outnumber the most frequent value
C4_Witness ==
    /\ Executed
    /\ tbl = <<NULL, Some(4000), NULL>>
    /\ Row["mode"] = Some(4000)

\* C5: handed an empty list of rows, parse_results does not raise and
\* returns a report whose insights field is the empty mapping.
C5_EmptyRowsEmptyInsights ==
    (pc = "parsed" /\ input = <<>>) =>
        /\ err = "none"
        /\ response # NULL
        /\ DOMAIN ValueOf(response).insights = {}

C5_Witness ==
    /\ pc = "parsed"
    /\ input = <<>>
    /\ response # NULL
    /\ ValueOf(response).insights = EmptyInsights

\* C6: every report parse_results returns, for an empty list of rows or
\* not, carries the column name of the insight and the type "Numeric".
C6_NameAndType ==
    (pc = "parsed" /\ response # NULL) =>
        /\ ValueOf(response).name = column_name
        /\ ValueOf(response).type = "Numeric"

C6_Witness ==
    /\ pc = "parsed"
    /\ input = result
    /\ Len(tbl) >= 1
    /\ response # NULL
    /\ ValueOf(response).name = "price"
    /\ ValueOf(response).type = "Numeric"

\* both runs went from generate_sql through the execution to parse_results
TwoRuns == pc = "parsed" /\ input = result /\ prev # NULL /\ response # NULL

TopCount == {v \in Present : \A w \in Present : Occ(w) <= Occ(v)}

\* C7 (as stated): two runs of generate_sql, execution and parse_results
\* over the unchanged table return identical reports, ties for the highest
\* occurrence count included.
C7_RunsIdentical == TwoRuns => response = prev

\* C7 (amended): two runs over the unchanged table return reports that agree
\* in name, type and every insight but mode; the modes agree too unless
\* several values tie for the highest occurrence count, and then each is one
\* of the tied values.
C7_RunsAgreeUpToTiedMode ==
    TwoRuns =>
        LET a == ValueOf(prev)
            b == ValueOf(response)
        IN  /\ a.name = b.name
            /\ a.type = b.type
            /\ DOMAIN a.insights = DOMAIN b.insights
            /\ \A k \in InsightKeys \ {"mode"} : a.insights[k] = b.insights[k]
            /\ (Cardinality(TopCount) <= 1 =>
                  a.insights["mode"] = b.insights["mode"])
            /\ (Cardinality(TopCount) > 1 =>
                  /\ a.insights["mode"] \subseteq TopCount
                  /\ b.insights["mode"] \subseteq TopCount
                  /\ a.insights["mode"] # NULL
                  /\ b.insights["mode"] # NULL)

\* two runs over a column with one most frequent value
C7_Witness ==
    /\ TwoRuns
    /\ tbl = <<Some(2000), Some(1000), Some(2000)>>
    /\ ValueOf(prev).insights["mode"] = Some(2000)
    /\ response = prev

\* C8: mean and median are the exact average (of the non-null values of the
\* column, of the selected central rows) rounded to 2 decimal places: a
\* multiple of 0.01 within 0.005 of the exact average.
C8_RoundedTo2Decimals ==
    Executed =>
        /\ (Row["mean"] # NULL =>
              LET m == ValueOf(Row["mean"])
                  s == SetSum({<<i, ValueOf(tbl[i])>> : i \in NonNullIdx})
                  n == Cardinality(NonNullIdx)
              IN  m % 10 = 0 /\ Abs(m * n - s) <= 5 * n)
        /\ (Row["median"] # NULL =>
              LET m == ValueOf(Row["median"])
                  s == SetSum(CentralNonNull)
                  n == Cardinality(CentralNonNull)
              IN  m % 10 = 0 /\ Abs(m * n - s) <= 5 * n)

\* [1, 1, 2] -> mean 1.33; [-0.005, 1] -> median 0.5
C8_Witness ==
    /\ Executed
    /\ \/ tbl = <<Some(1000), Some(1000), Some(2000)>>
          /\ Row["mean"] = Some(1330)
       \/ tbl = <<Some(-5), Some(1000)>> /\ Row["median"] = Some(500)

\* C9: the insights of a returned report are never partial: the empty
\* mapping when no row was handed over, else exactly the eight keys, each
\* with the value of the same-named field of the first row; further rows
\* are ignored.
C9_InsightsAllOrNothing ==
    (pc = "parsed" /\ response # NULL) =>
        LET ins == ValueOf(response).insights
        IN  /\ (input = <<>> => ins = EmptyInsights)
            /\ (input # <<>> =>
                  /\ DOMAIN ins = InsightKeys
                  /\ Cardinality(DOMAIN ins) = 8
                  /\ \A k \in InsightKeys : ins[k] = input[1][k])

\* a second row was handed over behind the row of the query
C9_Witness ==
    /\ pc = "parsed"
    /\ Len(input) = 2
    /\ response # NULL
    /\ DOMAIN ValueOf(response).insights = InsightKeys
    /\ ValueOf(response).insights["count"] = Some(Len(tbl))

\* C10: the median ranks all rows of the table, null rows included, and
\* takes total as the number of all rows: the auxiliary relation has one row
\* per table row, numbered 1..total, and the median is the rounded average
\* of the non-null values at the positions (total+1)/2 and (total+2)/2 of
\* the ranking of all rows, null when both positions hold nulls.
C10_MedianRanksAllRows ==
    Executed =>
        /\ Len(subquery) = Len(tbl)
        /\ \A i \in DOMAIN subquery :
              /\ subquery[i].total_rows = Len(tbl)
              /\ subquery[i].row_number = i
              /\ subquery[i].col = RankedCell(i)
        /\ (CentralNonNull = {} => Row["median"] = NULL)
        /\ (CentralNonNull # {} =>
              /\ Row["median"] # NULL
              /\ IsRounded2(ValueOf(Row["median"]), SetSum(CentralNonNull),
                            Cardinality(CentralNonNull)))

\* [1, null, null] with nulls ranked last: the middle row is a null row
C10_Witness ==
    /\ Executed
    /\ ~nullsFirst
    /\ tbl = <<Some(1000), NULL, NULL>>
    /\ Row["median"] = NULL
    /\ Row["mean"] = Some(1000)

----------------------------------------------------------------------------
\* the names of the catalog streams that connection_info.streams selects,
\* in catalog order
SelectedNames ==
    {conn_streams[i].name :
        i \in {j \in DOMAIN conn_streams : conn_streams[j].selected}}

RECURSIVE NamesIn(_, _)
NamesIn(cat, names) ==
    IF cat = <<>> THEN <<>>
    ELSE (IF Head(cat).stream.name \in names
          THEN <<Head(cat).stream.name>> ELSE <<>>)
         \o NamesIn(Tail(cat), names)

SentNames(req) == [i \in DOMAIN req.streams |-> req.streams[i].stream.name]

SentTo(endpoint) ==
    {i \in DOMAIN conn_requests : conn_requests[i].endpoint = endpoint}

\* C11: the syncCatalog update_connection sends to connections/update holds
\* exactly the catalog streams that connection_info.streams names with
\* selected true, in catalog order, as the one create_connection sends to
\* connections/create; both raise without any request to the server when
\* connection_info.streams is empty.
C11_UpdateSendsSelectedStreams ==
    /\ \A i \in SentTo("connections/update") :
          SentNames(conn_requests[i]) = NamesIn(conn_catalog, SelectedNames)
    /\ \A i \in SentTo("connections/create") :
          SentNames(conn_requests[i]) = NamesIn(conn_catalog, SelectedNames)
    /\ (conn_op # "none" /\ conn_streams = <<>> =>
          conn_outcome = "Exception" /\ conn_requests = <<>>)

----------------------------------------------------------------------------
\* the token is the prefix followed by a text that parses as the id of a
\* user of the store
TextAfter(prefix) == SubSeq(token, Len(prefix) + 1, Len(token))

Accepts(prefix, users) ==
    /\ Len(token) >= Len(prefix)
    /\ token = prefix \o TextAfter(prefix)
    /\ PyInt(TextAfter(prefix)) # NULL
    /\ ValueOf(PyInt(TextAfter(prefix))) \in users

AcceptedId(prefix) == ValueOf(PyInt(TextAfter(prefix)))

LookupAsClaimed(out, prefix, users) ==
    /\ out.kind # "None"
    /\ (Accepts(prefix, users) =>
          out.kind = "user" /\ out.id = AcceptedId(prefix) /\ out.id \in users)
    /\ (~Accepts(prefix, users) =>
          out.kind = "HttpError" /\ out.status = 400
          /\ out.message = "invalid token")

\* C12: neither lookup returns None: each returns a stored user only for a
\* token that is its own prefix followed by a text that parses as the id of
\* an existing user of its kind, and raises HttpError 400 "invalid token"
\* for every other token; no token is accepted by both lookups.
C12_LookupUserOrInvalidToken ==
    /\ (clientOut # Pending =>
          LookupAsClaimed(clientOut, ClientPrefix, clientUsers))
    /\ (adminOut # Pending =>
          LookupAsClaimed(adminOut, AdminPrefix, adminUsers))
    /\ ~(clientOut.kind = "user" /\ adminOut.kind = "user")

\* "fake-auth-token:1_1" is the client user 11 and no admin user
C12_Witness ==
    /\ token = ClientPrefix \o <<"1", "_", "1">>
    /\ 11 \in clientUsers
    /\ 11 \in adminUsers
    /\ clientOut.kind = "user"
    /\ clientOut.id = 11
    /\ adminOut.kind = "HttpError"

====
